---- MODULE Spec2Model ----
(***************************************************************************)
(* A model of the nx-pkg4 reader: the bounds-checked byte-range accessor   *)
(* (src/src/lib.rs), the header decoder and the string / bitmap resolvers  *)
(* (src/src/file.rs) and the node cursor: get, iter, next and bitmap       *)
(* (src/src/node.rs).                                                      *)
(*                                                                         *)
(* Representation of the machine integers.  A u16 is the natural number it  *)
(* denotes.  A u32 is the sequence of its 4 base-256 digits and a u64 (and  *)
(* a usize, the target being 64 bit) the sequence of its 8 digits, most     *)
(* significant first, so that the full width is kept: an addition that      *)
(* carries out of the top digit of a u64 overflows.  An overflowing `+`     *)
(* panics in a build with overflow checks (the dev profile) and wraps in a  *)
(* build without them (the release profile); the build is chosen by Init   *)
(* and never changes.                                                      *)
(***************************************************************************)
EXTENDS Integers, Sequences, FiniteSets, TLC

VARIABLES
    data,             \* NxFile.data: the mapped byte range
    overflow_checks,  \* the build: TRUE when `+` panics on overflow
    file,             \* the outcome of NxFile::open: header and root, or the error
    active,           \* the readers that share the open file
    pc,               \* pc[r]: where reader r is
    node,             \* node[r]: the NxNode (its NxNodeData) reader r works on
    name,             \* name[r]: the target of reader r's get, or the arguments of its read
    loop,             \* loop[r]: the locals index, count of get's while loop
    iter,             \* iter[r]: reader r's NxNodeIterator {data, count}
    out,              \* out[r]: the nodes reader r's iterator has yielded
    res               \* res[r]: what reader r's operation returned

vars == <<data, overflow_checks, file, active, pc, node, name, loop, iter, out, res>>

-----------------------------------------------------------------------------
(* Results: Ok(v) / Err(e) of Result, Some(v) / None of Option, and a panic. *)

Ok(v)    == [tag |-> "Ok", val |-> v]
Err(e)   == [tag |-> "Err", val |-> e]
Some(v)  == [tag |-> "Some", val |-> v]
None     == [tag |-> "None", val |-> <<>>]
Panic(w) == [tag |-> "Panic", val |-> w]

-----------------------------------------------------------------------------
(* u64 / usize arithmetic on 8 digits, most significant first.              *)

RECURSIVE Horner(_)
Horner(digits) ==
    IF digits = <<>> THEN 0
    ELSE Horner(SubSeq(digits, 1, Len(digits) - 1)) * 256 + digits[Len(digits)]

RECURSIVE Reverse(_)
Reverse(s) == IF s = <<>> THEN <<>> ELSE Append(Reverse(Tail(s)), Head(s))

\* n as u64, for a natural number below 2^31
U64(n) ==
    <<0, 0, 0, 0, (n \div 16777216) % 256, (n \div 65536) % 256, (n \div 256) % 256,
      n % 256>>

\* the natural number a u64 denotes, when it is below 2^31
U64ToNat(a) == Horner(a)

\* a <= b on u64
RECURSIVE ULe(_, _)
ULe(a, b) ==
    IF a = <<>> THEN TRUE
    ELSE IF Head(a) # Head(b) THEN Head(a) < Head(b)
    ELSE ULe(Tail(a), Tail(b))

\* The carry out of the top digit, then the digits of a + b
RECURSIVE Sum(_, _)
Sum(a, b) ==
    IF a = <<>> THEN <<0>>
    ELSE LET rest == Sum(Tail(a), Tail(b))
             t == Head(a) + Head(b) + rest[1]
         IN  <<t \div 256, t % 256>> \o Tail(rest)

wrapping_add(a, b) == Tail(Sum(a, b))

\* a * c on u64, for a below 2^32 and a small natural number c: no overflow
RECURSIVE mul(_, _)
mul(a, c) ==
    IF c = 0 THEN U64(0)
    ELSE LET half == mul(a, c \div 2)
             twice == wrapping_add(half, half)
         IN  IF c % 2 = 0 THEN twice ELSE wrapping_add(twice, a)

\* `x as u64`, `x as usize` of a u32
as_u64(x) == <<0, 0, 0, 0>> \o x

\* `a + b` on u64 / usize: the sum, or the panic of a build with overflow checks
add(a, b) ==
    LET sum == Sum(a, b) IN
    IF sum[1] = 1 /\ overflow_checks
    THEN Panic("attempt to add with overflow")
    ELSE Ok(Tail(sum))

-----------------------------------------------------------------------------
(* NxTryGet for [u8] (src/src/lib.rs).                                      *)

\* u16::from_le_bytes: least significant byte first
from_le_bytes(bytes) == Horner(Reverse(bytes))

\* u32::from_le_bytes: the digits, most significant first
u32_from_le_bytes(bytes) == Reverse(bytes)

\* u64::from_le_bytes: the digits, most significant first
u64_from_le_bytes(bytes) == Reverse(bytes)

\* u64::to_le_bytes
to_le_bytes(a) == Reverse(a)

\* <[u8]>::get(start..end)
slice_get(self, start, end) ==
    IF ULe(start, end) /\ ULe(end, U64(Len(self)))
    THEN Some(SubSeq(self, U64ToNat(start) + 1, U64ToNat(end)))
    ELSE None

\* <[u8]>::get(start..)
slice_get_from(self, start) ==
    IF ULe(start, U64(Len(self)))
    THEN Some(SubSeq(self, U64ToNat(start) + 1, Len(self)))
    ELSE None

try_get_u16(self, index) ==
    LET end == add(index, U64(2)) IN
    IF end.tag = "Panic" THEN end
    ELSE LET bytes == slice_get(self, index, end.val) IN
         IF bytes.tag = "None" THEN Err("OutOfBoundsRange")
         ELSE Ok(from_le_bytes(bytes.val))

try_get_u32(self, index) ==
    LET end == add(index, U64(4)) IN
    IF end.tag = "Panic" THEN end
    ELSE LET bytes == slice_get(self, index, end.val) IN
         IF bytes.tag = "None" THEN Err("OutOfBoundsRange")
         ELSE Ok(u32_from_le_bytes(bytes.val))

try_get_u64(self, index) ==
    LET end == add(index, U64(8)) IN
    IF end.tag = "Panic" THEN end
    ELSE LET bytes == slice_get(self, index, end.val) IN
         IF bytes.tag = "None" THEN Err("OutOfBoundsRange")
         ELSE Ok(u64_from_le_bytes(bytes.val))

\* The number of continuation bytes the lead byte b announces; -1: no lead byte
Utf8Width(b) ==
    IF b < 128 THEN 0
    ELSE IF b >= 194 /\ b <= 223 THEN 1
    ELSE IF b >= 224 /\ b <= 239 THEN 2
    ELSE IF b >= 240 /\ b <= 244 THEN 3
    ELSE -1

\* core::str::from_utf8 accepts bytes
RECURSIVE Utf8Valid(_)
Utf8Valid(bytes) ==
    IF bytes = <<>> THEN TRUE
    ELSE LET b == bytes[1]
             w == Utf8Width(b)
             lo == IF b = 224 THEN 160 ELSE IF b = 240 THEN 144 ELSE 128
             hi == IF b = 237 THEN 159 ELSE IF b = 244 THEN 143 ELSE 191
         IN /\ w >= 0
            /\ Len(bytes) >= 1 + w
            /\ w >= 1 => (bytes[2] >= lo /\ bytes[2] <= hi)
            /\ \A i \in 3..(1 + w) : bytes[i] >= 128 /\ bytes[i] <= 191
            /\ Utf8Valid(SubSeq(bytes, 2 + w, Len(bytes)))

try_get_str(self, index, len) ==
    LET end == add(index, U64(len)) IN
    IF end.tag = "Panic" THEN end
    ELSE LET bytes == slice_get(self, index, end.val) IN
         IF bytes.tag = "None" THEN Err("OutOfBoundsRange")
         ELSE IF ~Utf8Valid(bytes.val) THEN Err("InvalidString")
         ELSE Ok(bytes.val)

\* impl From<u16> for NxNodeType
NxNodeType_from(value) ==
    CASE value = 0 -> [tag |-> "Empty", raw |-> 0]
      [] value = 1 -> [tag |-> "Integer", raw |-> 0]
      [] value = 2 -> [tag |-> "Float", raw |-> 0]
      [] value = 3 -> [tag |-> "String", raw |-> 0]
      [] value = 4 -> [tag |-> "Vector", raw |-> 0]
      [] value = 5 -> [tag |-> "Bitmap", raw |-> 0]
      [] value = 6 -> [tag |-> "Audio", raw |-> 0]
      [] OTHER -> [tag |-> "Invalid", raw |-> value]

\* NxNodeData.index: the absolute byte offset the record was decoded from
NodeIndex(index) == index

try_get_node_data(self, index) ==
    LET node_table == slice_get_from(self, index) IN
    IF node_table.tag = "None" THEN Err("OutOfBoundsIndex")
    ELSE
    LET t == node_table.val
        nm == try_get_u32(t, U64(0))
        children == try_get_u32(t, U64(4))
        count == try_get_u16(t, U64(8))
        data_type == try_get_u16(t, U64(10))
        dat == try_get_u64(t, U64(12))
    IN  IF nm.tag # "Ok" THEN nm
        ELSE IF children.tag # "Ok" THEN children
        ELSE IF count.tag # "Ok" THEN count
        ELSE IF data_type.tag # "Ok" THEN data_type
        ELSE IF dat.tag # "Ok" THEN dat
        ELSE Ok([index |-> NodeIndex(index),
                 name |-> nm.val,
                 children |-> children.val,
                 count |-> count.val,
                 data_type |-> NxNodeType_from(data_type.val),
                 data |-> dat.val])

\* NxTryGet::try_get_bytes: the len bytes at index, bounds-checked like try_get_str
try_get_bytes(self, index, len) ==
    LET end == add(index, len) IN
    IF end.tag = "Panic" THEN end
    ELSE LET bytes == slice_get(self, index, end.val) IN
         IF bytes.tag = "None" THEN Err("OutOfBoundsRange")
         ELSE Ok(bytes.val)

-----------------------------------------------------------------------------
(* NxHeader and NxFile (src/src/file.rs).                                   *)

MAGIC == <<52, 71, 75, 80>>   \* 0x34474B50, "PKG4"

\* .map_err(|_| NxError::InvalidHeader)
map_err_InvalidHeader(r) == IF r.tag = "Err" THEN Err("InvalidHeader") ELSE r

NxHeader_new(d) ==
    LET magic == try_get_u32(d, U64(0)) IN
    IF magic.tag # "Ok" THEN magic
    ELSE IF magic.val # MAGIC THEN Err("InvalidHeader")
    ELSE
    LET node_count == map_err_InvalidHeader(try_get_u32(d, U64(4)))
        node_offset == map_err_InvalidHeader(try_get_u64(d, U64(8)))
        string_count == map_err_InvalidHeader(try_get_u32(d, U64(16)))
        string_offset == map_err_InvalidHeader(try_get_u64(d, U64(20)))
        bitmap_count == map_err_InvalidHeader(try_get_u32(d, U64(28)))
        bitmap_offset == map_err_InvalidHeader(try_get_u64(d, U64(32)))
        audio_count == map_err_InvalidHeader(try_get_u32(d, U64(40)))
        audio_offset == map_err_InvalidHeader(try_get_u64(d, U64(44)))
    IN  IF node_count.tag # "Ok" THEN node_count
        ELSE IF node_offset.tag # "Ok" THEN node_offset
        ELSE IF string_count.tag # "Ok" THEN string_count
        ELSE IF string_offset.tag # "Ok" THEN string_offset
        ELSE IF bitmap_count.tag # "Ok" THEN bitmap_count
        ELSE IF bitmap_offset.tag # "Ok" THEN bitmap_offset
        ELSE IF audio_count.tag # "Ok" THEN audio_count
        ELSE IF audio_offset.tag # "Ok" THEN audio_offset
        ELSE Ok([node_count |-> node_count.val,
                 node_offset |-> node_offset.val,
                 string_count |-> string_count.val,
                 string_offset |-> string_offset.val,
                 bitmap_count |-> bitmap_count.val,
                 bitmap_offset |-> bitmap_offset.val,
                 audio_count |-> audio_count.val,
                 audio_offset |-> audio_offset.val])

\* NxFile::open, after the file is mapped: Ok of {header, root}, or the error
NxFile_open(d) ==
    LET header == NxHeader_new(d) IN
    IF header.tag # "Ok" THEN header
    ELSE LET root == try_get_node_data(d, header.val.node_offset) IN
         IF root.tag # "Ok" THEN root
         ELSE Ok([header |-> header.val, root |-> root.val])

\* NxFile::get_str
get_str(index) ==
    LET at == add(file.val.header.string_offset, mul(as_u64(index), 8)) IN
    IF at.tag # "Ok" THEN at
    ELSE
    LET offset == try_get_u64(data, at.val) IN
    IF offset.tag # "Ok" THEN offset
    ELSE
    LET len == try_get_u16(data, offset.val) IN
    IF len.tag # "Ok" THEN len
    ELSE
    LET start == add(offset.val, U64(2)) IN
    IF start.tag # "Ok" THEN start
    ELSE try_get_str(data, start.val, len.val)

\* NxFile::get_bitmap
get_bitmap(index) ==
    LET at == add(file.val.header.bitmap_offset, mul(as_u64(index), 8)) IN
    IF at.tag # "Ok" THEN at
    ELSE
    LET offset == try_get_u64(data, at.val) IN
    IF offset.tag # "Ok" THEN offset
    ELSE
    LET len == try_get_u32(data, offset.val) IN
    IF len.tag # "Ok" THEN len
    ELSE
    LET start == add(offset.val, U64(4)) IN
    IF start.tag # "Ok" THEN start
    ELSE try_get_bytes(data, start.val, as_u64(len.val))

-----------------------------------------------------------------------------
(* NxNode and NxNodeIterator (src/src/node.rs).                             *)

NX_NODE_OFFSET == 20

\* lz4_flex::decompress(input, min_uncompressed_size), on a block that is one
\* sequence of a token and its literals (the last sequence of an LZ4 block):
\* the literals, however few, when they fit min_uncompressed_size bytes.
decompress(input, min_uncompressed_size) ==
    IF input = <<>> THEN Err("ExpectedAnotherByte")
    ELSE LET literals == input[1] \div 16 IN
         IF literals = 15 \/ Len(input) < 1 + literals THEN Err("LiteralOutOfBounds")
         ELSE IF Len(input) > 1 + literals THEN Err("OffsetOutOfBounds")
         ELSE IF literals > min_uncompressed_size THEN Err("OutputTooSmall")
         ELSE Ok(SubSeq(input, 2, 1 + literals))

\* NxNode::bitmap on the node with record n
NxNode_bitmap(n) ==
    IF n.data_type.tag = "Bitmap"
    THEN LET bytes == to_le_bytes(n.data)
             index == u32_from_le_bytes(SubSeq(bytes, 1, 4))
             width == from_le_bytes(SubSeq(bytes, 5, 6))
             height == from_le_bytes(SubSeq(bytes, 7, 8))
             compressed == get_bitmap(index)
         IN  IF compressed.tag # "Ok" THEN compressed
             ELSE LET d == decompress(compressed.val, width * height * 4) IN
                  IF d.tag # "Ok"
                  THEN Panic("unwrap on an Err value")
                  ELSE Ok(Some([width |-> width, height |-> height, data |-> d.val]))
    ELSE Ok(None)

\* str::cmp: lexicographic on the bytes
RECURSIVE cmp(_, _)
cmp(a, b) ==
    IF a = <<>> THEN (IF b = <<>> THEN "Equal" ELSE "Less")
    ELSE IF b = <<>> THEN "Greater"
    ELSE IF Head(a) < Head(b) THEN "Less"
    ELSE IF Head(a) > Head(b) THEN "Greater"
    ELSE cmp(Tail(a), Tail(b))

\* The offset of the first child of the node with record n
first_child(n) ==
    add(file.val.header.node_offset, mul(as_u64(n.children), NX_NODE_OFFSET))

\* NxNode::get, before the loop: the locals index and count
get_enter(n) ==
    LET index == first_child(n) IN
    IF index.tag # "Ok" THEN [done |-> TRUE, ret |-> index]
    ELSE [done |-> FALSE, index |-> index.val, count |-> n.count]

\* The Less arm as the rule `index += middle * 40; count -= middle + 1`
get_less_doubled(l, current, middle) ==
    LET index == add(l.index, U64(middle * 2 * NX_NODE_OFFSET)) IN
    IF index.tag # "Ok" THEN [done |-> TRUE, ret |-> index]
    ELSE [done |-> FALSE, index |-> index.val, count |-> l.count - (middle + 1)]

\* The Ordering::Less arm: the locals after it
get_less(l, current, middle) ==
    LET index == add(current.index, U64(NX_NODE_OFFSET)) IN
    IF index.tag # "Ok" THEN [done |-> TRUE, ret |-> index]
    ELSE [done |-> FALSE, index |-> index.val, count |-> l.count - (middle + 1)]

\* The Greater arm keeping the probed record in the window
get_greater_inclusive(l, current, middle) ==
    [done |-> FALSE, index |-> l.index, count |-> middle + 1]

\* The Ordering::Greater arm: the locals after it
get_greater(l, current, middle) == [done |-> FALSE, index |-> l.index, count |-> middle]

\* NxNode::get, one test of the loop condition and, when it holds, one run of
\* the body, from the locals l: the return value, or the locals after it
get_step(l, target) ==
    IF l.count = 0 THEN [done |-> TRUE, ret |-> None]
    ELSE
    LET middle == l.count \div 2
        at == add(l.index, U64(middle * NX_NODE_OFFSET))
    IN  IF at.tag # "Ok" THEN [done |-> TRUE, ret |-> at]
        ELSE
        LET current == try_get_node_data(data, at.val) IN
        IF current.tag = "Panic" THEN [done |-> TRUE, ret |-> current]
        ELSE IF current.tag = "Err" THEN [done |-> TRUE, ret |-> None]
        ELSE
        LET current_name == get_str(current.val.name) IN
        IF current_name.tag = "Panic" THEN [done |-> TRUE, ret |-> current_name]
        ELSE IF current_name.tag = "Err" THEN [done |-> TRUE, ret |-> None]
        ELSE
        LET ord == cmp(current_name.val, target) IN
        CASE ord = "Less" -> get_less(l, current.val, middle)
          [] ord = "Equal" -> [done |-> TRUE, ret |-> Some(current.val)]
          [] ord = "Greater" -> get_greater(l, current.val, middle)

\* NxNode::iter on the node with record n
NxNode_iter(n) ==
    LET at == first_child(n) IN
    IF at.tag # "Ok" THEN at
    ELSE LET d == try_get_node_data(data, at.val) IN
         IF d.tag # "Ok" THEN d
         ELSE Ok([data |-> d.val, count |-> n.count])

\* NxNodeIterator::next: the iterator after the call and the value returned
NxNodeIterator_next(it) ==
    IF it.count = 0 THEN [it |-> it, ret |-> None]
    ELSE
    LET counted == [it EXCEPT !.count = it.count - 1]
        at == add(it.data.index, U64(NX_NODE_OFFSET))
    IN  IF at.tag # "Ok" THEN [it |-> counted, ret |-> at]
        ELSE
        LET next == try_get_node_data(data, at.val) IN
        IF next.tag = "Panic" THEN [it |-> counted, ret |-> next]
        ELSE IF next.tag = "Err" THEN [it |-> counted, ret |-> None]
        ELSE [it |-> [counted EXCEPT !.data = next.val], ret |-> Some(it.data)]

-----------------------------------------------------------------------------
(* The byte ranges the model opens: NX images laid out as the decoders read *)
(* them, and images damaged by a patch or a cut.                            *)

MaxChildren == 4   \* the longest sibling run of a generated image

\* n in w little-endian bytes, for n below 2^31
Le(n, w) == [i \in 1..w |-> IF i > 4 THEN 0 ELSE (n \div (256 ^ (i - 1))) % 256]

RECURSIVE Flatten(_)
Flatten(ss) == IF ss = <<>> THEN <<>> ELSE Head(ss) \o Flatten(Tail(ss))

\* The 20-byte node record: name:u32, children:u32, count:u16, type:u16, data:u64
NodeRecord(nm, children, count, dtype, word) ==
    Le(nm, 4) \o Le(children, 4) \o Le(count, 2) \o Le(dtype, 2) \o word

\* A string payload: [u16 len][len bytes]
StringEntry(s) == Le(Len(s), 2) \o s

\* The strings of an image: the root's (empty) name, then the kids' names
Strings(kids) == <<<<>>>> \o [i \in 1..Len(kids) |-> kids[i].name]

StringData(kids, n) == Flatten([i \in 1..n |-> StringEntry(Strings(kids)[i])])

NodeTable(kids) ==
    NodeRecord(0, 1, Len(kids), 0, Le(0, 8))
        \o Flatten([i \in 1..Len(kids) |->
                      NodeRecord(i, 0, 0, kids[i].dtype, kids[i].word)])

HeaderLen == 52

\* Where the tables of an image start.  With nodesLast the node table is the
\* last thing in the file, and the last record ends where the file ends.
StrTabAt(kids, nodesLast) ==
    IF nodesLast THEN HeaderLen ELSE HeaderLen + Len(NodeTable(kids))
StrDataAt(kids, nodesLast) == StrTabAt(kids, nodesLast) + 8 * (Len(kids) + 1)
BmpTabAt(kids, nodesLast) ==
    StrDataAt(kids, nodesLast) + Len(StringData(kids, Len(kids) + 1))
NodesAt(kids, payload, nodesLast) ==
    IF nodesLast THEN BmpTabAt(kids, nodesLast) + 12 + Len(payload) ELSE HeaderLen

Image(kids, payload, nodesLast) ==
    LET k == Len(kids)
        bmp == BmpTabAt(kids, nodesLast)
        total == HeaderLen + Len(NodeTable(kids)) + 8 * (k + 1)
                   + Len(StringData(kids, k + 1)) + 12 + Len(payload)
        header == Reverse(MAGIC)
                    \o Le(k + 1, 4) \o Le(NodesAt(kids, payload, nodesLast), 8)
                    \o Le(k + 1, 4) \o Le(StrTabAt(kids, nodesLast), 8)
                    \o Le(1, 4) \o Le(bmp, 8)
                    \o Le(0, 4) \o Le(total, 8)
        tables == Flatten([i \in 1..(k + 1) |->
                             Le(StrDataAt(kids, nodesLast)
                                  + Len(StringData(kids, i - 1)), 8)])
                    \o StringData(kids, k + 1)
                    \o Le(bmp + 8, 8) \o Le(Len(payload), 4) \o payload
    IN  header \o (IF nodesLast THEN tables \o NodeTable(kids)
                                ELSE NodeTable(kids) \o tables)

\* image with bytes written over it from offset at (0-based)
Patch(image, at, bytes) ==
    [i \in 1..Len(image) |->
       IF i > at /\ i <= at + Len(bytes) THEN bytes[i - at] ELSE image[i]]

Names == {<<97>>, <<98>>, <<99>>, <<100>>}

\* An LZ4 block of 4 literals
Payload4 == <<64, 1, 2, 3, 4>>

\* kids that are Integer leaves with the given names; the data word tells them apart
Leaves(names) ==
    [i \in 1..Len(names) |-> [name |-> names[i], dtype |-> 1, word |-> Le(i, 8)]]

\* The runs of names: those in ascending order, strictly or with repeats, and,
\* for runs that are not sorted, those in descending order
Ascending(names) ==
    \A i \in 1..(Len(names) - 1) : cmp(names[i], names[i + 1]) # "Greater"
Descending(names) ==
    \A i \in 1..(Len(names) - 1) : cmp(names[i], names[i + 1]) # "Less"
NameLists ==
    {names \in UNION {[1..n -> Names] : n \in 0..MaxChildren} :
        Ascending(names) \/ Descending(names)}

\* Well-formed images: every such run, in both layouts
PlainImages ==
    {Image(Leaves(names), Payload4, nl) : names \in NameLists, nl \in BOOLEAN}

\* Images of one child, of every type tag; its data word is [index][width][height]
\* LZ4 blocks: 4 literals, 4 literals announced and 2 present, 7 literals
Payloads == {Payload4, <<64, 1, 2>>, <<112, 1, 2, 3, 4, 5, 6, 7>>}

TypedImages ==
    {Image(<<[name |-> <<97>>, dtype |-> t, word |-> Le(0, 4) \o Le(1, 2) \o Le(1, 2)]>>,
           Payload4, FALSE) : t \in 0..7}
    \cup
    {Image(<<[name |-> <<97>>, dtype |-> 5,
              word |-> Le(ix, 4) \o Le(wh[1], 2) \o Le(wh[2], 2)]>>, p, nl) :
        ix \in {0, 1}, wh \in {<<1, 1>>, <<2, 1>>, <<0, 3>>}, p \in Payloads,
        nl \in BOOLEAN}

Abc == Leaves(<<<<97>>, <<98>>, <<99>>>>)

Ones(n) == [i \in 1..n |-> 255]

\* Damaged images: a string or bitmap offset beyond the range or within 8 of
\* 2^64, a table offset of the header within 8 of 2^64, a name that is not
\* UTF-8, a length that overruns, a children index or a count that overruns
Damages(nl) ==
    LET st == StrTabAt(Abc, nl)
        sd == StrDataAt(Abc, nl)
        bt == BmpTabAt(Abc, nl)
        nt == NodesAt(Abc, Payload4, nl)
        half == <<[name |-> <<97>>, dtype |-> 5,
                   word |-> Le(0, 4) \o Le(1, 2) \o Le(1, 2)]>>
    IN  {[at |-> st + 16, bytes |-> Ones(8), kids |-> Abc],
         [at |-> st + 16, bytes |-> <<254>> \o Ones(7), kids |-> Abc],
         [at |-> st + 16, bytes |-> <<253>> \o Ones(7), kids |-> Abc],
         [at |-> st + 16, bytes |-> Le(9999, 8), kids |-> Abc],
         [at |-> 20, bytes |-> <<248>> \o Ones(7), kids |-> Abc],
         [at |-> 20, bytes |-> Le(9999, 8), kids |-> Abc],
         [at |-> sd + 7, bytes |-> <<255>>, kids |-> Abc],
         [at |-> sd + 5, bytes |-> Le(200, 2), kids |-> Abc],
         [at |-> nt + 4, bytes |-> Le(1000, 4), kids |-> Abc],
         [at |-> nt + 8, bytes |-> Le(5, 2), kids |-> Abc],
         [at |-> 32, bytes |-> <<248>> \o Ones(7), kids |-> half],
         [at |-> 32, bytes |-> Le(9999, 8), kids |-> half],
         [at |-> BmpTabAt(half, nl), bytes |-> <<252>> \o Ones(7), kids |-> half],
         [at |-> BmpTabAt(half, nl), bytes |-> <<250>> \o Ones(7), kids |-> half],
         [at |-> BmpTabAt(half, nl) + 8, bytes |-> Le(77, 4), kids |-> half],
         [at |-> 0, bytes |-> <<80, 75, 71, 51>>, kids |-> Abc],
         [at |-> 0, bytes |-> <<0, 0, 0, 0>>, kids |-> Abc]}

DamagedImages ==
    UNION {{Patch(Image(d.kids, Payload4, nl), d.at, d.bytes) : d \in Damages(nl)} :
             nl \in BOOLEAN}

\* Cut images: every prefix of a well-formed image from its first byte on
CutImages ==
    {SubSeq(Image(Abc, Payload4, nl), 1, n) :
        n \in 1..Len(Image(Abc, Payload4, FALSE)), nl \in BOOLEAN}
    \cup {SubSeq(Patch(Image(Abc, Payload4, FALSE), 0, <<0, 0, 0, 0>>), 1, n) :
            n \in 1..HeaderLen}

Images == PlainImages \cup TypedImages \cup DamagedImages \cup CutImages

-----------------------------------------------------------------------------
(* The state machine: NxFile::open, then readers that each run get, iter    *)
(* and next, bitmap, or one read of the accessor, step by step.             *)

Readers == {"r1", "r2"}

NoNode == [index |-> U64(0), name |-> <<0, 0, 0, 0>>, children |-> <<0, 0, 0, 0>>, count |-> 0,
           data_type |-> NxNodeType_from(0), data |-> U64(0)]
NoLoop == [index |-> U64(0), count |-> 0, probes |-> 0]
NoIter == [data |-> NoNode, count |-> 0]
NoRead == [kind |-> "none", index |-> U64(0), len |-> 0]
Closed == [tag |-> "Closed", val |-> <<>>]
Nothing == [tag |-> "Nothing", val |-> <<>>]

\* The names looked up: those an image may hold, and one it never holds
Targets == Names \cup {<<101>>}

\* The offsets read: around both ends of the range and within 20 of 2^64
ReadOffsets ==
    {U64(n) : n \in {0, 8} \cup {m \in (Len(data) - 20)..(Len(data) + 1) : m >= 0}}
    \cup {Ones(7) \o <<255 - k>> : k \in {0, 1, 2, 3, 7, 19}}

ReadLens == {0, 1, 4}

InitWith(images, readers) ==
    /\ data \in images
    /\ overflow_checks \in BOOLEAN
    /\ file = Closed
    /\ active = readers
    /\ pc = [r \in Readers |-> "idle"]
    /\ node = [r \in Readers |-> NoNode]
    /\ name = [r \in Readers |-> <<>>]
    /\ loop = [r \in Readers |-> NoLoop]
    /\ iter = [r \in Readers |-> NoIter]
    /\ out = [r \in Readers |-> <<>>]
    /\ res = [r \in Readers |-> Nothing]

Init == InitWith(Images, {"r1"})

\* Two readers on one open file
SharedImages ==
    {Image(Leaves(<<<<97>>, <<98>>, <<99>>, <<100>>>>), Payload4, nl) : nl \in BOOLEAN}
    \cup {Image(<<[name |-> <<97>>, dtype |-> 5,
                   word |-> Le(0, 4) \o Le(1, 2) \o Le(1, 2)]>>, Payload4, FALSE)}

InitShared == InitWith(SharedImages, Readers)

\* The byte ranges read through the accessor alone
ReadImages ==
    {Image(Abc, Payload4, nl) : nl \in BOOLEAN}
    \cup {SubSeq(Image(Abc, Payload4, FALSE), 1, n) : n \in {0, 1, 3, 19, 60}}

InitRead == InitWith(ReadImages, {"r1"})

\* NxFile::open; every reader starts at NxFile::root
Open ==
    /\ file = Closed
    /\ file' = NxFile_open(data)
    /\ node' = [r \in Readers |->
                  IF file'.tag = "Ok" THEN file'.val.root ELSE NoNode]
    /\ UNCHANGED <<data, overflow_checks, active, pc, name, loop, iter, out, res>>

\* The loop state of reader r becomes l, the locals or the return value, after
\* n more probes
GetStore(r, l, n) ==
    IF l.done
    THEN /\ pc' = [pc EXCEPT ![r] = "got"]
         /\ res' = [res EXCEPT ![r] = l.ret]
         /\ loop' = [loop EXCEPT ![r].probes = @ + n]
    ELSE /\ pc' = [pc EXCEPT ![r] = "get"]
         /\ res' = res
         /\ loop' = [loop EXCEPT ![r] = [index |-> l.index, count |-> l.count,
                                         probes |-> @.probes + n]]

\* Reader r calls get(target) on its node
GetCall(r, target) ==
    /\ file.tag = "Ok" /\ pc[r] = "idle"
    /\ name' = [name EXCEPT ![r] = target]
    /\ GetStore(r, get_enter(node[r]), 0)
    /\ UNCHANGED <<data, overflow_checks, file, active, node, iter, out>>

\* Reader r's get tests the loop condition and runs the body once
GetStep(r) ==
    /\ file.tag = "Ok" /\ pc[r] = "get"
    /\ GetStore(r, get_step(loop[r], name[r]), IF loop[r].count > 0 THEN 1 ELSE 0)
    /\ UNCHANGED <<data, overflow_checks, file, active, node, name, iter, out>>

\* Reader r moves to the node its get returned
Descend(r) ==
    /\ pc[r] = "got" /\ res[r].tag = "Some"
    /\ node' = [node EXCEPT ![r] = res[r].val]
    /\ pc' = [pc EXCEPT ![r] = "idle"]
    /\ res' = [res EXCEPT ![r] = Nothing]
    /\ loop' = [loop EXCEPT ![r] = NoLoop]
    /\ name' = [name EXCEPT ![r] = <<>>]
    /\ UNCHANGED <<data, overflow_checks, file, active, iter, out>>

\* Reader r calls iter() on its node
IterCall(r) ==
    /\ file.tag = "Ok" /\ pc[r] = "idle"
    /\ LET it == NxNode_iter(node[r]) IN
       /\ res' = [res EXCEPT ![r] = it]
       /\ IF it.tag = "Ok"
          THEN /\ pc' = [pc EXCEPT ![r] = "iter"]
               /\ iter' = [iter EXCEPT ![r] = it.val]
          ELSE /\ pc' = [pc EXCEPT ![r] = "iter_failed"]
               /\ iter' = iter
    /\ UNCHANGED <<data, overflow_checks, file, active, node, name, loop, out>>

\* One cursor shared by every iterator of the file
IterStoreShared(r, it) == [q \in Readers |-> it]

\* The iterator of reader r becomes it
IterStore(r, it) == [iter EXCEPT ![r] = it]

\* Reader r calls next() on its iterator, until it returns None
IterNext(r) ==
    /\ file.tag = "Ok" /\ pc[r] = "iter"
    /\ LET n == NxNodeIterator_next(iter[r]) IN
       /\ iter' = IterStore(r, n.it)
       /\ IF n.ret.tag = "Some"
          THEN /\ out' = [out EXCEPT ![r] = Append(out[r], n.ret.val)]
               /\ UNCHANGED <<pc, res>>
          ELSE /\ pc' = [pc EXCEPT ![r] = "drained"]
               /\ res' = [res EXCEPT ![r] = n.ret]
               /\ out' = out
    /\ UNCHANGED <<data, overflow_checks, file, active, node, name, loop>>

\* Reader r calls bitmap() on its node
Bitmap(r) ==
    /\ file.tag = "Ok" /\ pc[r] = "idle"
    /\ res' = [res EXCEPT ![r] = NxNode_bitmap(node[r])]
    /\ pc' = [pc EXCEPT ![r] = "bitmapped"]
    /\ UNCHANGED <<data, overflow_checks, file, active, node, name, loop, iter, out>>

\* The accessor call rd on the byte range
read(rd) ==
    CASE rd.kind = "u16" -> try_get_u16(data, rd.index)
      [] rd.kind = "u32" -> try_get_u32(data, rd.index)
      [] rd.kind = "u64" -> try_get_u64(data, rd.index)
      [] rd.kind = "str" -> try_get_str(data, rd.index, rd.len)
      [] rd.kind = "node" -> try_get_node_data(data, rd.index)

\* Reader r reads the byte range through the accessor
Read(r, kind, index, len) ==
    /\ pc[r] = "idle"
    /\ LET rd == [kind |-> kind, index |-> index, len |-> len] IN
       /\ name' = [name EXCEPT ![r] = rd]
       /\ res' = [res EXCEPT ![r] = read(rd)]
    /\ pc' = [pc EXCEPT ![r] = "read"]
    /\ UNCHANGED <<data, overflow_checks, file, active, node, loop, iter, out>>

Get == \E r \in active, target \in Targets : GetCall(r, target)
GetLoop == \E r \in active : GetStep(r)
Walk == \E r \in active : Descend(r)
Iterate == \E r \in active : IterCall(r)
IterateNext == \E r \in active : IterNext(r)
GetBitmap == \E r \in active : Bitmap(r)
ReadFixed ==
    \E r \in active, kind \in {"u16", "u32", "u64", "node"}, index \in ReadOffsets :
        Read(r, kind, index, 0)
ReadStr ==
    \E r \in active, index \in ReadOffsets, len \in ReadLens : Read(r, "str", index, len)

Next ==
    \/ Open
    \/ Get
    \/ GetLoop
    \/ Walk
    \/ Iterate
    \/ IterateNext
    \/ GetBitmap

NextRead ==
    \/ ReadFixed
    \/ ReadStr

\* One reader, every image
Spec == Init /\ [][Next]_vars

\* Two readers interleaved on one open file
SpecShared == InitShared /\ [][Next]_vars

\* The accessor alone
SpecRead == InitRead /\ [][NextRead]_vars

-----------------------------------------------------------------------------
(* What the properties are stated against.                                  *)

\* The offset of the first child of the node with record n, as a number
Base(n) == U64ToNat(first_child(n).val)

\* The record of child i (from 0) of the node with record n, and its name
ChildAt(n, i) == try_get_node_data(data, U64(Base(n) + i * NX_NODE_OFFSET))
ChildName(n, i) == get_str(ChildAt(n, i).val.name)

\* The n.count child records lie inside the byte range
RunInRange(n) == Base(n) + n.count * NX_NODE_OFFSET <= Len(data)

\* Every child record of n decodes and every child name resolves
RunDecodes(n) ==
    \A i \in 0..(n.count - 1) : ChildAt(n, i).tag = "Ok" /\ ChildName(n, i).tag = "Ok"

Sorted(n) ==
    \A i \in 0..(n.count - 2) :
        cmp(ChildName(n, i).val, ChildName(n, i + 1).val) # "Greater"

StrictlySorted(n) ==
    \A i \in 0..(n.count - 2) :
        cmp(ChildName(n, i).val, ChildName(n, i + 1).val) = "Less"

\* The linear scan of the children of n for target, from child i on
RECURSIVE Scan(_, _, _)
Scan(n, target, i) ==
    IF i >= n.count THEN None
    ELSE IF ChildName(n, i).val = target THEN Some(ChildAt(n, i).val)
    ELSE Scan(n, target, i + 1)

\* NxNode::get run to its return, from the locals l
RECURSIVE get_run(_, _)
get_run(l, target) == IF l.done THEN l.ret ELSE get_run(get_step(l, target), target)

get(n, target) == get_run(get_enter(n), target)

\* next() called on it until it returns None: the nodes yielded after acc, and
\* the last return value
RECURSIVE drain(_, _)
drain(it, acc) ==
    LET n == NxNodeIterator_next(it) IN
    IF n.ret.tag = "Some" THEN drain(n.it, Append(acc, n.ret.val))
    ELSE [out |-> acc, ret |-> n.ret]

\* width and height of the data word [index: u32][width: u16][height: u16]
WordWidth(word) == word[4] + 256 * word[3]
WordHeight(word) == word[2] + 256 * word[1]

-----------------------------------------------------------------------------
(* The properties.                                                          *)

\* C1, as claimed: over every sibling run that lies in the range, resolves and
\* is sorted by name (repeats allowed), a finished get(name) returned what the
\* linear scan of the run returns for name.
C1_GetIsLinearScan ==
    \A r \in active :
        (pc[r] = "got" /\ RunInRange(node[r]) /\ RunDecodes(node[r]) /\ Sorted(node[r]))
            => res[r] = Scan(node[r], name[r], 0)

\* C1, amended: over every sibling run that lies in the range, resolves and is
\* strictly sorted by name (no two siblings share a name), a finished
\* get(name) returned what the linear scan of the run returns for name: that
\* child, or None when no child has the name or the run is empty.
C1_GetIsLinearScanOnStrictRuns ==
    \A r \in active :
        (pc[r] = "got" /\ RunInRange(node[r]) /\ RunDecodes(node[r])
            /\ StrictlySorted(node[r]))
            => res[r] = Scan(node[r], name[r], 0)

\* A get on a strictly sorted run of 4 took the Less arm and found the last child
C1_Witness ==
    \E r \in active :
        /\ pc[r] = "got" /\ node[r].count = 4
        /\ RunInRange(node[r]) /\ RunDecodes(node[r]) /\ StrictlySorted(node[r])
        /\ res[r].tag = "Some"
        /\ res[r].val = ChildAt(node[r], 3).val
        /\ loop[r].probes = 2

\* C2, as claimed: when the k child records of a node lie inside the range,
\* the iterator drained to its first None yielded exactly k nodes, the i-th
\* the record at node_offset + children*20 + i*20.
C2_IterYieldsAllChildren ==
    \A r \in active :
        (pc[r] = "drained" /\ RunInRange(node[r]))
            => /\ Len(out[r]) = node[r].count
               /\ \A i \in 1..Len(out[r]) : out[r][i] = ChildAt(node[r], i - 1).val

\* C3, as claimed: header decoding yields a header or fails with
\* InvalidHeader; it fails with InvalidHeader on a wrong magic and on every
\* range shorter than the 52 bytes of the header.
C3_HeaderFailsInvalidHeader ==
    file # Closed =>
        /\ NxHeader_new(data).tag = "Ok" \/ NxHeader_new(data) = Err("InvalidHeader")
        /\ (Len(data) < HeaderLen \/ SubSeq(data, 1, 4) # Reverse(MAGIC))
              => file = Err("InvalidHeader")

\* C4, as claimed: a finished get returned Some or None, never a panic or an
\* error, whatever failed while it decoded records and resolved names.
C4_GetNeverFails ==
    \A r \in active : pc[r] = "got" => res[r].tag \in {"Some", "None"}

\* C5, as claimed: iter() and the next() calls after it surface no decode
\* error: iter() returns a sequence, and the sequence just ends.
C5_IterNeverFails ==
    \A r \in active :
        /\ pc[r] # "iter_failed"
        /\ pc[r] \in {"iter", "drained"} => res[r].tag \in {"Ok", "None"}

\* C6, as claimed: bitmap() on a Bitmap node that returns a buffer returns one
\* of width * height * 4 bytes; on a node of another type it returns Ok(None).
C6_BitmapLength ==
    \A r \in active :
        pc[r] = "bitmapped" =>
            IF node[r].data_type.tag = "Bitmap"
            THEN (res[r].tag = "Ok" /\ res[r].val.tag = "Some")
                    => Len(res[r].val.val.data)
                         = WordWidth(node[r].data) * WordHeight(node[r].data) * 4
            ELSE res[r] = Ok(None)

\* C7, as claimed: a bitmap() call that fails returns an error: it does not
\* panic, and when the payload does not decompress to width * height * 4
\* bytes it returns no buffer.
C7_BitmapFailuresAreErrors ==
    \A r \in active :
        (pc[r] = "bitmapped" /\ node[r].data_type.tag = "Bitmap") =>
            /\ res[r].tag \in {"Ok", "Err"}
            /\ LET payload == get_bitmap(SubSeq(node[r].data, 5, 8))
                   size == WordWidth(node[r].data) * WordHeight(node[r].data) * 4
               IN  (\/ payload.tag # "Ok"
                    \/ decompress(payload.val, size).tag # "Ok"
                    \/ Len(decompress(payload.val, size).val) # size)
                       => res[r].tag = "Err"

\* The bytes a read of rd needs
ReadWidth(rd) ==
    CASE rd.kind = "u16" -> 2
      [] rd.kind = "u32" -> 4
      [] rd.kind = "u64" -> 8
      [] rd.kind = "str" -> rd.len
      [] rd.kind = "node" -> 20

\* offset + length, in the integers, is within the range
ReadInRange(rd) ==
    /\ ULe(rd.index, U64(Len(data)))
    /\ U64ToNat(rd.index) + ReadWidth(rd) <= Len(data)

ReadBytes(rd) ==
    SubSeq(data, U64ToNat(rd.index) + 1, U64ToNat(rd.index) + ReadWidth(rd))

\* C8, as claimed: a read returns the little-endian decoding of the bytes
\* [offset, offset+length) when they lie in the range and fails with an
\* out-of-bounds error when they do not, also when offset+length overflows
\* the machine word: it neither wraps to a valid position nor panics.
C8_ReadsAreBoundsChecked ==
    \A r \in active :
        pc[r] = "read" =>
            LET rd == name[r] IN
            IF ReadInRange(rd)
            THEN LET b == ReadBytes(rd) IN
                 CASE rd.kind = "u16" -> res[r] = Ok(b[1] + 256 * b[2])
                   [] rd.kind = "u32" -> res[r] = Ok(<<b[4], b[3], b[2], b[1]>>)
                   [] rd.kind = "u64" ->
                        res[r] = Ok(<<b[8], b[7], b[6], b[5], b[4], b[3], b[2], b[1]>>)
                   [] rd.kind = "str" ->
                        res[r] = Ok(b) \/ res[r] = Err("InvalidString")
                   [] rd.kind = "node" ->
                        /\ res[r].tag = "Ok"
                        /\ res[r].val.name = <<b[4], b[3], b[2], b[1]>>
                        /\ res[r].val.children = <<b[8], b[7], b[6], b[5]>>
                        /\ res[r].val.count = b[9] + 256 * b[10]
                        /\ res[r].val.data_type = NxNodeType_from(b[11] + 256 * b[12])
                        /\ res[r].val.data
                             = <<b[20], b[19], b[18], b[17], b[16], b[15], b[14], b[13]>>
            ELSE /\ res[r].tag = "Err"
                 /\ res[r].val \in {"OutOfBoundsRange", "OutOfBoundsIndex"}

\* A finished operation of reader r returned what the operation returns when
\* it runs alone on the reader's node, and an unfinished one is where the
\* operation alone would be
SameAsAlone(r) ==
    /\ pc[r] = "get" =>
          get_run([done |-> FALSE, index |-> loop[r].index, count |-> loop[r].count],
                  name[r]) = get(node[r], name[r])
    /\ pc[r] = "got" => res[r] = get(node[r], name[r])
    /\ pc[r] = "iter_failed" => res[r] = NxNode_iter(node[r])
    /\ pc[r] = "iter" =>
          /\ NxNode_iter(node[r]).tag = "Ok"
          /\ drain(iter[r], out[r]) = drain(NxNode_iter(node[r]).val, <<>>)
    /\ pc[r] = "drained" =>
          /\ out[r] = drain(NxNode_iter(node[r]).val, <<>>).out
          /\ res[r] = drain(NxNode_iter(node[r]).val, <<>>).ret
    /\ pc[r] = "bitmapped" => res[r] = NxNode_bitmap(node[r])

\* Two drained iterators of one node yielded the same nodes, from the first child on
SameSequences ==
    \A r \in active, q \in active :
        (pc[r] = "drained" /\ pc[q] = "drained" /\ node[r] = node[q])
            => /\ out[r] = out[q]
               /\ out[r] # <<>> => out[r][1] = ChildAt(node[r], 0).val

\* No step changes the byte range, the build, the open file or the node of a
\* reader in the middle of an operation
Frame ==
    /\ data' = data
    /\ overflow_checks' = overflow_checks
    /\ file # Closed => file' = file
    /\ \A r \in active : pc[r] \in {"get", "iter"} => node'[r] = node[r]

\* C9: under every interleaving of the steps of the readers of one open file,
\* each reader's lookups and iterations return what they return alone, two
\* iterators of one node yield the same sequence from the first child on, and
\* no step changes the byte range, the header, the root or a parent's record.
C9_ReadersDoNotInterfere ==
    /\ [](\A r \in active : SameAsAlone(r))
    /\ []SameSequences
    /\ [][Frame]_vars

\* Both readers drained an iterator of the root of 4 children while the other
\* was in the middle of its own
C9_Witness ==
    /\ active = Readers
    /\ \A r \in Readers : pc[r] = "drained" /\ Len(out[r]) >= 3
    /\ node["r1"] = node["r2"]

\* The window of a get in its loop: with base the offset of the first child
\* and k the count of the node, it lies in the sibling run, on a record
\* boundary, and the probes made and the candidates left are at most k
InWindow(r) ==
    LET base == Base(node[r])
        k == node[r].count
        index == U64ToNat(loop[r].index)
        count == loop[r].count
        probe == index + (count \div 2) * NX_NODE_OFFSET
    IN  /\ base <= index
        /\ index + count * NX_NODE_OFFSET <= base + k * NX_NODE_OFFSET
        /\ count > 0 => \E j \in 0..(k - 1) : probe = base + j * NX_NODE_OFFSET
        /\ loop[r].probes + count <= k

\* A run of the loop body that does not return leaves fewer candidates
Shrinks ==
    \A r \in active :
        (pc[r] = "get" /\ pc'[r] = "get" /\ loop'[r] # loop[r])
            => loop'[r].count < loop[r].count

\* C10: at the start of every iteration of get's loop the window lies inside
\* the node's sibling run, every probed offset is that of one of the node's k
\* children, the count left strictly decreases, and at most k probes are made.
C10_WindowStaysInRun ==
    /\ [](\A r \in active : pc[r] = "get" => InWindow(r))
    /\ [](\A r \in active : pc[r] \in {"get", "got"} => loop[r].probes <= node[r].count)
    /\ [][Shrinks]_vars

\* A get on a node of 4 children is at its second iteration, after the Less
\* arm moved the window to the last child
C10_Witness ==
    \E r \in active :
        /\ pc[r] = "get" /\ loop[r].probes = 1 /\ loop[r].count = 1
        /\ node[r].count = 4
        /\ U64ToNat(loop[r].index) = Base(node[r]) + 3 * NX_NODE_OFFSET

====
